---- MODULE Spec2Model ----
(***************************************************************************)
(* A model of DOCtoFB2.py: the DOCX -> FB2 conversion pipeline of          *)
(* DocxToFb2Converter and the MainWindow handlers that drive it.           *)
(*                                                                         *)
(* Text is a sequence of one-character strings, so that substring tests,   *)
(* lower-casing and concatenation are computed as Python computes them.    *)
(* An lxml element's text or tail of None is the empty sequence: the code  *)
(* never stores '' in either (empty runs are skipped), so the two coincide.*)
(* The Russian message literals of the source are written in English.      *)
(***************************************************************************)
EXTENDS Naturals, Sequences, FiniteSets, TLC

VARIABLES
    \* MainWindow
    current_file,      \* self.current_file: the loaded package, or None
    fb2_content,       \* self.fb2_content: the last converted text, or None
    settings,          \* self.settings: AppSettings
    image_counter,     \* self.converter.image_counter
    \* one call of DocxToFb2Converter.convert
    pc,                \* position inside convert ("idle" outside a call)
    fb2_root,          \* the output tree under construction
    xml_content,       \* the serialised text (local of convert)
    inner,             \* the exception caught by convert's except clause
    returned,          \* the value convert returned, or None
    raised,            \* the exception convert raised to its caller, or None
    printed,           \* what _extract_images printed
    \* one call of _add_text_with_formatting
    paragraph,         \* its paragraph argument
    parent,            \* its parent argument: the block element being filled
    current_element,   \* its cursor: 0 is parent, k > 0 is parent.nodes[k]
    run_index,         \* position of the for loop over paragraph.runs
    fmt_pc,            \* "loop" | "done"
    \* one style classification of _process_document
    para_style,        \* para.style: a style name, or NoStyle
    block_tag          \* the tag of the element created for it, or None

appVars == <<current_file, fb2_content, settings, image_counter>>
callVars == <<pc, fb2_root, xml_content, inner, returned, raised, printed>>
fmtVars == <<paragraph, parent, current_element, run_index, fmt_pc>>
clsVars == <<para_style, block_tag>>
vars == <<current_file, fb2_content, settings, image_counter,
          pc, fb2_root, xml_content, inner, returned, raised, printed,
          paragraph, parent, current_element, run_index, fmt_pc,
          para_style, block_tag>>

\* ------------------------------------------------------------------ bounds

\* Longest run sequence of a paragraph handed to _add_text_with_formatting.
MaxRuns == 3
\* Most chunks a generated style name is concatenated from.
MaxChunks == 4
\* Most paragraphs of a source document.
MaxParas == 3
\* Most entries of a package's name list.
MaxMedia == 3
\* convert_file is not started once the converter's counter exceeds this.
MaxCounter == 3

\* ------------------------------------------------------------------- values

\* Python's None, for the variables that hold a record or None.
None == [none |-> TRUE]

\* ---------------------------------------------------------------- text

\* The sequences over S of length at most n.
SeqUpTo(S, n) == UNION {[1..k -> S] : k \in 0..n}

UpperLetters == <<"A","B","C","D","E","F","G","H","I","J","K","L","M",
                  "N","O","P","Q","R","S","T","U","V","W","X","Y","Z">>
LowerLetters == <<"a","b","c","d","e","f","g","h","i","j","k","l","m",
                  "n","o","p","q","r","s","t","u","v","w","x","y","z">>

\* str.lower() on one character.
LowerChar(c) ==
    IF \E i \in 1..26 : UpperLetters[i] = c
    THEN LowerLetters[CHOOSE i \in 1..26 : UpperLetters[i] = c]
    ELSE c

\* str.lower()
Lower(s) == [i \in 1..Len(s) |-> LowerChar(s[i])]

\* Python's `sub in s` on strings.
Contains(s, sub) ==
    \E i \in 0..(Len(s) - Len(sub)) :
        Len(s) >= Len(sub) /\ \A j \in 1..Len(sub) : s[i + j] = sub[j]

\* The concatenation of a sequence of strings.
RECURSIVE Join(_)
Join(ss) == IF ss = <<>> THEN <<>> ELSE Head(ss) \o Join(Tail(ss))

heading == <<"h","e","a","d","i","n","g">>
heading_2 == heading \o <<" ","2">>
heading_3 == heading \o <<" ","3">>

\* ------------------------------------------------- style classification

\* para.style is None for a paragraph without a style.
NoStyle == <<"<", "N", "o", "n", "e", ">">>

\* style = para.style.name.lower() if para.style else ''
StyleOf(s) == IF s = NoStyle THEN <<>> ELSE Lower(s)

\* A plausible slip: heading 3 tested before heading 2.
LevelHeading3First(style) ==
    IF Contains(style, heading_3) THEN 3
    ELSE IF Contains(style, heading_2) THEN 2
    ELSE 1

\* level = 1; if 'heading 2' in style: 2; elif 'heading 3' in style: 3
Level(style) ==
    IF Contains(style, heading_2) THEN 2
    ELSE IF Contains(style, heading_3) THEN 3
    ELSE 1

\* f"subtitle{'' if level == 1 else str(level)}"
SubtitleTag(level) ==
    IF level = 1 THEN "subtitle" ELSE IF level = 2 THEN "subtitle2" ELSE "subtitle3"

\* The tag of the element _process_document creates for a paragraph style.
BlockTag(s) ==
    LET style == StyleOf(s)
    IN  IF Contains(style, heading) THEN SubtitleTag(Level(style)) ELSE "p"

\* ------------------------------------------- inline formatting (lxml tree)

\* etree.SubElement(section, tag): an element with no text and no children.
\* Its descendants are kept flat in nodes, in creation order, each with its
\* tag, text, tail and the index of its parent (0: the element itself).
\* SubElement appends, so the children of a node are in index order.
NewElement(tag) == [tag |-> tag, text |-> <<>>, nodes |-> <<>>]

\* current_element.tag
TagOf(tree, k) == IF k = 0 THEN tree.tag ELSE tree.nodes[k].tag

\* elem.text = (elem.text or '') + s
AppendText(tree, k, s) ==
    IF k = 0
    THEN [tree EXCEPT !.text = @ \o s]
    ELSE [tree EXCEPT !.nodes[k].text = @ \o s]

\* elem.tail = s if elem.tail is None else elem.tail + s
AppendTail(tree, k, s) == [tree EXCEPT !.nodes[k].tail = @ \o s]

\* e = etree.SubElement(current_element, tag); e.text = s
SubElementWithText(tree, k, tag, s) ==
    [tree EXCEPT !.nodes =
        Append(@, [tag |-> tag, text |-> s, tail |-> <<>>, parent |-> k])]

\* The cursor of the loop: the tree and current_element.
Cursor(tree, k) == [tree |-> tree, current_element |-> k]

\* The bold branch (tag "strong") and the italic branch (tag "emphasis"):
\* merge into the current element if it has that tag, else open a child of
\* the current element and move the cursor to it.
FormattedRun(c, tag, text) ==
    IF TagOf(c.tree, c.current_element) = tag
    THEN Cursor(AppendText(c.tree, c.current_element, text), c.current_element)
    ELSE Cursor(SubElementWithText(c.tree, c.current_element, tag, text),
                Len(c.tree.nodes) + 1)

\* A plausible slip: plain text always goes to the parent's text.
PlainRunToParentText(c, text) ==
    Cursor(AppendText(c.tree, 0, text), c.current_element)

\* The plain branch: the parent's text while the cursor is the parent, else
\* the tail of the current element. The cursor stays.
PlainRun(c, text) ==
    IF c.current_element = 0
    THEN Cursor(AppendText(c.tree, 0, text), c.current_element)
    ELSE Cursor(AppendTail(c.tree, c.current_element, text), c.current_element)

\* A plausible slip: preserve_formatting is not consulted.
IsBoldRunAlways(run, s) == run.bold

\* A plausible slip: a run counts as bold only when it is not italic too.
IsBoldRunNotItalic(run, s) == run.bold /\ ~run.italic /\ s.preserve_formatting

\* run.bold and settings.preserve_formatting
IsBoldRun(run, s) == run.bold /\ s.preserve_formatting
\* elif run.italic and settings.preserve_formatting
IsItalicRun(run, s) == ~IsBoldRun(run, s) /\ run.italic /\ s.preserve_formatting

\* One iteration of the loop over paragraph.runs.
AddRun(c, run, s) ==
    IF run.text = <<>> THEN c
    ELSE IF IsBoldRun(run, s) THEN FormattedRun(c, "strong", run.text)
    ELSE IF IsItalicRun(run, s) THEN FormattedRun(c, "emphasis", run.text)
    ELSE PlainRun(c, run.text)

\* The loop over paragraph.runs, from the cursor c.
RECURSIVE AddRuns(_, _, _)
AddRuns(c, runs, s) ==
    IF runs = <<>> THEN c ELSE AddRuns(AddRun(c, Head(runs), s), Tail(runs), s)

\* if not paragraph.runs: if paragraph.text: parent.text = paragraph.text
NoRunsText(para, tree) ==
    IF para.text # <<>> THEN [tree EXCEPT !.text = para.text] ELSE tree

\* _add_text_with_formatting(paragraph, parent, settings): the filled parent.
AddTextWithFormatting(para, tree, s) ==
    IF para.runs = <<>>
    THEN NoRunsText(para, tree)
    ELSE AddRuns(Cursor(tree, 0), para.runs, s).tree

\* The text of an element in document order, as etree.tostring writes it:
\* its text, then each child's text in document order followed by its tail.
RECURSIVE IterText(_, _)
RECURSIVE ChildrenText(_, _, _)
IterText(tree, k) ==
    (IF k = 0 THEN tree.text ELSE tree.nodes[k].text) \o ChildrenText(tree, k, 1)
ChildrenText(tree, k, j) ==
    IF j > Len(tree.nodes) THEN <<>>
    ELSE (IF tree.nodes[j].parent = k
          THEN IterText(tree, j) \o tree.nodes[j].tail
          ELSE <<>>) \o ChildrenText(tree, k, j + 1)

\* -------------------------------------------------------------- inputs

\* AppSettings, the fields convert reads.
Settings ==
    [preserve_formatting : BOOLEAN, convert_images : BOOLEAN,
     remove_empty_lines : BOOLEAN, validate_fb2 : BOOLEAN]

\* AppSettings(): the dataclass defaults.
DefaultSettings ==
    [preserve_formatting |-> TRUE, convert_images |-> TRUE,
     remove_empty_lines |-> TRUE, validate_fb2 |-> TRUE]

\* python-docx runs: text and the bold / italic flags.
RunTexts == {<<>>, <<"a">>, <<"b">>}
Runs == [text : RunTexts, bold : BOOLEAN, italic : BOOLEAN]

\* paragraph.text is the concatenation of the run texts.
ParagraphOf(style, runs) ==
    [style |-> style, runs |-> runs,
     text |-> Join([i \in 1..Len(runs) |-> runs[i].text])]

Normal == <<"N","o","r","m","a","l">>

\* The paragraphs handed to _add_text_with_formatting: every run sequence up
\* to MaxRuns, and a paragraph whose text comes from no run at all (python-docx
\* counts hyperlink text in paragraph.text but lists no run for it).
FmtParagraphs ==
    {ParagraphOf(Normal, rs) : rs \in SeqUpTo(Runs, MaxRuns)}
    \cup {[style |-> Normal, runs |-> <<>>, text |-> <<"a">>]}

\* ------------------------------------------------------ source packages

Plain(text) == [text |-> text, bold |-> FALSE, italic |-> FALSE]
Bold(text) == [text |-> text, bold |-> TRUE, italic |-> FALSE]

Heading1 == <<"H","e","a","d","i","n","g"," ","1">>
Heading2 == <<"H","e","a","d","i","n","g"," ","2">>
Heading3 == <<"h","e","a","d","i","n","g"," ","3">>

\* The paragraphs of the source documents: empty without a run, whitespace
\* only, body text without a style, headings of the three levels, and a
\* heading whose only run is empty.
ConvertParagraphs ==
    {ParagraphOf(Normal, <<>>),
     ParagraphOf(Normal, <<Plain(<<" ">>)>>),
     ParagraphOf(NoStyle, <<Plain(<<"a">>)>>),
     ParagraphOf(Heading1, <<Bold(<<"a">>)>>),
     ParagraphOf(Heading2, <<Plain(<<"b">>)>>),
     ParagraphOf(Heading3, <<Plain(<<"b">>)>>),
     ParagraphOf(Heading1, <<Plain(<<>>)>>)}

\* An entry of the package's name list: the directory and the extension of
\* its name, and what its bytes are: "ok" (a decodable image), "corrupt" (PIL
\* cannot decode it), "huge" (decodable, its base64 text is longer than the
\* text node libxml2 parses without huge_tree), "other" (no image).
MediaDir == <<"word/media/">>
WordDir == <<"word/">>
EntryKinds ==
    {[dir |-> MediaDir, ext |-> <<"j","p","g">>, bytes |-> "ok"],
     [dir |-> MediaDir, ext |-> <<"P","N","G">>, bytes |-> "ok"],
     [dir |-> MediaDir, ext |-> <<"p","n","g">>, bytes |-> "corrupt"],
     [dir |-> MediaDir, ext |-> <<"j","p","g">>, bytes |-> "huge"],
     [dir |-> MediaDir, ext |-> <<"e","m","f">>, bytes |-> "other"],
     [dir |-> WordDir, ext |-> <<"x","m","l">>, bytes |-> "other"]}

\* A control character, which lxml refuses in an element's text.
CTRL == "<control character>"
GoodStem == <<"b","o","o","k">>
BadStem == <<"b", CTRL>>

\* A .docx file: whether python-docx can open it, the stem of its file name,
\* its paragraphs and the name list of its zip package.
Package(readable, stem, paragraphs, namelist) ==
    [readable |-> readable, stem |-> stem,
     paragraphs |-> paragraphs, namelist |-> namelist]

TextParagraph == ParagraphOf(NoStyle, <<Plain(<<"a">>)>>)
UnreadablePackage == Package(FALSE, GoodStem, <<>>, <<>>)

\* The files one convert call is checked on: every document of up to MaxParas
\* paragraphs without media, every name list of up to MaxMedia entries, a file
\* that cannot be opened and a file name lxml refuses.
ConvertPackages ==
    {Package(TRUE, GoodStem, ps, <<>>) : ps \in SeqUpTo(ConvertParagraphs, MaxParas)}
    \cup {Package(TRUE, GoodStem, <<TextParagraph>>, nl) :
            nl \in SeqUpTo(EntryKinds, MaxMedia)}
    \cup {UnreadablePackage, Package(TRUE, BadStem, <<TextParagraph>>, <<>>)}

\* The files loaded into the application.
AppPackages ==
    {Package(TRUE, GoodStem, <<TextParagraph>>, nl) :
        nl \in {<<>>,
                <<[dir |-> MediaDir, ext |-> <<"j","p","g">>, bytes |-> "ok"]>>,
                <<[dir |-> MediaDir, ext |-> <<"j","p","g">>, bytes |-> "huge"]>>}}
    \cup {UnreadablePackage}

\* ---------------------------------------------------------- exceptions

Exc(type, msg) == [type |-> type, msg |-> msg]

\* docx.opc.exceptions.PackageNotFoundError, raised by Document(docx_path).
PackageNotFoundError == Exc("PackageNotFoundError", <<"Package not found">>)
\* lxml's ValueError for text that XML cannot hold.
XMLCompatError == Exc("ValueError", <<"All strings must be XML compatible">>)
\* PIL.UnidentifiedImageError, raised by Image.open.
UnidentifiedImageError == Exc("UnidentifiedImageError", <<"cannot identify image file">>)
\* zipfile.BadZipFile / FileNotFoundError, raised by zipfile.ZipFile.
BadZipFile == Exc("BadZipFile", <<"File is not a zip file">>)
\* lxml.etree.XMLSyntaxError, raised by etree.fromstring.
XMLSyntaxError == Exc("XMLSyntaxError", <<"xmlSAX2Characters: huge text node">>)

ValidationPrefix == <<"FB2 validation error: ">>
ConversionPrefix == <<"Conversion error: ">>
ImagePrefix == <<"Image extraction error: ">>

\* raise Exception(f"<validation error>: {str(e)}")
ValidationError(e) == Exc("Exception", ValidationPrefix \o e.msg)

\* A plausible slip: the original exception is re-raised as it is.
ReraiseUnwrapped(e) == e

\* raise Exception(f"<conversion error>: {str(e)}")
ConversionError(e) == Exc("Exception", ConversionPrefix \o e.msg)

\* ------------------------------------------------------- the output tree

\* etree.Element("FictionBook", nsmap=nsmap): the root and its children.
FictionBook == [tag |-> "FictionBook", children |-> <<>>]

AddChild(root, e) == [root EXCEPT !.children = Append(@, e)]

ChildrenTagged(root, tag) == SelectSeq(root.children, LAMBDA e : e.tag = tag)

\* lxml accepts a text only without control characters.
XMLCompatible(text) == \A i \in 1..Len(text) : text[i] # CTRL

\* _add_description(root, docx_path): the root with its description, or the
\* exception of title.text = book_title.
AddDescription(root, pkg) ==
    IF XMLCompatible(pkg.stem)
    THEN [root |-> AddChild(root,
                     [tag |-> "description",
                      title_info |-> [book_title |-> pkg.stem,
                                      first_name |-> "Author",
                                      last_name |-> "Unknown",
                                      date |-> "today",
                                      lang |-> "ru"]]),
          exc |-> None]
    ELSE [root |-> root, exc |-> XMLCompatError]

\* not para.text
IsEmptyText(text) == text = <<>>

\* A plausible slip: the new element is inserted in front of the others.
ProcessParagraphInFront(section, para, s) ==
    IF IsEmptyText(para.text) /\ s.remove_empty_lines
    THEN section
    ELSE <<AddTextWithFormatting(para, NewElement(BlockTag(para.style)), s)>>
         \o section

\* One iteration of the loop of _process_document over doc.paragraphs.
ProcessParagraph(section, para, s) ==
    IF IsEmptyText(para.text) /\ s.remove_empty_lines
    THEN section
    ELSE Append(section,
                AddTextWithFormatting(para, NewElement(BlockTag(para.style)), s))

\* _process_document(doc, section, settings): the children of the section.
RECURSIVE ProcessDocument(_, _, _)
ProcessDocument(section, paragraphs, s) ==
    IF paragraphs = <<>> THEN section
    ELSE ProcessDocument(ProcessParagraph(section, Head(paragraphs), s),
                         Tail(paragraphs), s)

\* body = SubElement(root, "body"); title; section; _process_document(...)
AddBody(root, pkg, s) ==
    AddChild(root, [tag |-> "body", title |-> [tag |-> "title"],
                    section |-> ProcessDocument(<<>>, pkg.paragraphs, s)])

\* ------------------------------------------------------ image extraction

ImageExtensions ==
    {<<"j","p","g">>, <<"j","p","e","g">>, <<"p","n","g">>, <<"g","i","f">>,
     <<"b","m","p">>}
JpegExtensions == {<<"j","p","g">>, <<"j","p","e","g">>}

\* f.startswith('word/media/') and f.split('.')[-1].lower() in [...]
IsImageFile(entry) == entry.dir = MediaDir /\ Lower(entry.ext) \in ImageExtensions

\* image_files: the positions of the image entries, in name-list order.
ImageFiles(namelist) ==
    SelectSeq([i \in 1..Len(namelist) |-> i], LAMBDA i : IsImageFile(namelist[i]))

\* base64.b64encode(img_data).decode('ascii')
Base64(data) == [b64 |-> data]

\* f"image_{self.image_counter}"
ImageId(n) == <<"image_", n>>

\* One iteration of the loop over image_files, on the entry at position i.
\* acc holds the binary elements added so far, the counter and the exception
\* that left the loop, if any. The image read is identified by its position.
ImageStep(acc, namelist, i) ==
    LET entry == namelist[i]
        ext == Lower(entry.ext)
        transcode == ext \notin JpegExtensions
    IN  IF transcode /\ entry.bytes # "ok" /\ entry.bytes # "huge"
        THEN [acc EXCEPT !.exc = UnidentifiedImageError]
        ELSE [binaries |-> Append(acc.binaries,
                  [tag |-> "binary",
                   attrib |-> ("id" :> ImageId(acc.image_counter))
                              @@ ("content_type" :> "image/jpeg"),
                   text |-> Base64([content |-> i,
                                    format |-> IF transcode THEN <<"JPEG">> ELSE ext,
                                    huge |-> entry.bytes = "huge"])]),
              image_counter |-> acc.image_counter + 1,
              exc |-> None]

\* The loop over image_files: an exception leaves it.
RECURSIVE ImageLoop(_, _, _)
ImageLoop(acc, namelist, files) ==
    IF files = <<>> \/ acc.exc # None THEN acc
    ELSE ImageLoop(ImageStep(acc, namelist, Head(files)), namelist, Tail(files))

\* What the with block of _extract_images does: zipfile.ZipFile fails, or the
\* loop runs.
ImageBlock(pkg, zip_ok, counter) ==
    IF zip_ok
    THEN ImageLoop([binaries |-> <<>>, image_counter |-> counter, exc |-> None],
                   pkg.namelist, ImageFiles(pkg.namelist))
    ELSE [binaries |-> <<>>, image_counter |-> counter, exc |-> BadZipFile]

\* A plausible slip: no try/except around the block.
ExtractImagesUncaught(pkg, zip_ok, counter) ==
    LET r == ImageBlock(pkg, zip_ok, counter)
    IN  [binaries |-> r.binaries, image_counter |-> r.image_counter,
         printed |-> <<>>, exc |-> r.exc]

\* _extract_images(docx_path, fb2_root): the binary elements added to the
\* root, the counter afterwards, what was printed, and the exception that
\* leaves the method (none: except Exception catches and prints).
ExtractImages(pkg, zip_ok, counter) ==
    LET r == ImageBlock(pkg, zip_ok, counter)
    IN  [binaries |-> r.binaries, image_counter |-> r.image_counter,
         printed |-> IF r.exc # None THEN <<ImagePrefix \o r.exc.msg>> ELSE <<>>,
         exc |-> None]

\* ------------------------------------------- serialisation and validation

\* etree.tostring(fb2_root, encoding='UTF-8', pretty_print=True,
\* xml_declaration=True).decode('utf-8')
Serialize(root) == [xml_declaration |-> "UTF-8", document |-> root]

\* etree.fromstring(xml_content.encode('utf-8'), parser): the XMLSyntaxError it
\* raises, or None. The text lxml wrote is well formed; the parser refuses a
\* text node beyond its length limit.
ParseError(xml) ==
    IF \E i \in 1..Len(xml.document.children) :
          /\ xml.document.children[i].tag = "binary"
          /\ xml.document.children[i].text.b64.huge
    THEN XMLSyntaxError
    ELSE None

\* A plausible slip: the parse error is swallowed.
ValidateFb2Passes(xml) == None

\* _validate_fb2(xml_content): the exception it raises, or None.
ValidateFb2(xml) ==
    IF ParseError(xml) # None THEN ValidationError(ParseError(xml)) ELSE None

\* --------------------------------------------------- DocxToFb2Converter.convert

\* No call of convert is running and none has run.
NoCall ==
    /\ fb2_root = None
    /\ xml_content = None
    /\ inner = None
    /\ returned = None
    /\ raised = None
    /\ printed = <<>>

\* No call of _add_text_with_formatting is modelled on its own.
NoFmt ==
    /\ paragraph = None
    /\ parent = None
    /\ current_element = 0
    /\ run_index = 0
    /\ fmt_pc = "idle"

NoTag == ""

\* No classification is modelled on its own.
NoCls == para_style = NoStyle /\ block_tag = NoTag

\* doc = Document(docx_path); fb2_root = etree.Element("FictionBook", ...)
convert_open ==
    /\ pc = "open"
    /\ IF current_file.readable
       THEN /\ fb2_root' = FictionBook
            /\ pc' = "describe"
            /\ inner' = inner
       ELSE /\ inner' = PackageNotFoundError
            /\ pc' = "except"
            /\ fb2_root' = fb2_root
    /\ UNCHANGED <<xml_content, returned, raised, printed>>
    /\ UNCHANGED <<appVars, fmtVars, clsVars>>

\* self._add_description(fb2_root, docx_path)
convert_add_description ==
    /\ pc = "describe"
    /\ LET r == AddDescription(fb2_root, current_file)
       IN  /\ fb2_root' = r.root
           /\ inner' = r.exc
           /\ pc' = IF r.exc = None THEN "process" ELSE "except"
    /\ UNCHANGED <<xml_content, returned, raised, printed>>
    /\ UNCHANGED <<appVars, fmtVars, clsVars>>

\* body, title, section; self._process_document(doc, section, settings)
convert_process_document ==
    /\ pc = "process"
    /\ fb2_root' = AddBody(fb2_root, current_file, settings)
    /\ pc' = "images"
    /\ UNCHANGED <<xml_content, inner, returned, raised, printed>>
    /\ UNCHANGED <<appVars, fmtVars, clsVars>>

\* A plausible slip: images are extracted whatever the setting says.
ConvertImagesAlways(s) == TRUE

\* if settings.convert_images:
ConvertImages(s) == s.convert_images

\* if settings.convert_images: self._extract_images(docx_path, fb2_root)
\* Whether zipfile.ZipFile opens the file is the file system's answer.
convert_extract_images ==
    /\ pc = "images"
    /\ IF ConvertImages(settings)
       THEN \E zip_ok \in BOOLEAN :
              LET r == ExtractImages(current_file, zip_ok, image_counter)
              IN  /\ fb2_root' = [fb2_root EXCEPT !.children = @ \o r.binaries]
                  /\ image_counter' = r.image_counter
                  /\ printed' = r.printed
                  /\ inner' = r.exc
                  /\ pc' = IF r.exc = None THEN "tostring" ELSE "except"
       ELSE /\ pc' = "tostring"
            /\ UNCHANGED <<fb2_root, image_counter, printed, inner>>
    /\ UNCHANGED <<xml_content, returned, raised>>
    /\ UNCHANGED <<current_file, fb2_content, settings, fmtVars, clsVars>>

\* xml_content = etree.tostring(fb2_root, ...).decode('utf-8')
convert_tostring ==
    /\ pc = "tostring"
    /\ xml_content' = Serialize(fb2_root)
    /\ pc' = "validate"
    /\ UNCHANGED <<fb2_root, inner, returned, raised, printed>>
    /\ UNCHANGED <<appVars, fmtVars, clsVars>>

\* if settings.validate_fb2: self._validate_fb2(xml_content)
convert_validate ==
    /\ pc = "validate"
    /\ IF settings.validate_fb2 /\ ValidateFb2(xml_content) # None
       THEN inner' = ValidateFb2(xml_content) /\ pc' = "except"
       ELSE inner' = inner /\ pc' = "return"
    /\ UNCHANGED <<fb2_root, xml_content, returned, raised, printed>>
    /\ UNCHANGED <<appVars, fmtVars, clsVars>>

\* return xml_content, and convert_file's self.fb2_content = ...
convert_return ==
    /\ pc = "return"
    /\ returned' = xml_content
    /\ fb2_content' = xml_content
    /\ pc' = "idle"
    /\ UNCHANGED <<fb2_root, xml_content, inner, raised, printed>>
    /\ UNCHANGED <<current_file, settings, image_counter, fmtVars, clsVars>>

\* except Exception as e: raise Exception(...); convert_file shows the message
\* and leaves self.fb2_content as it was.
convert_except ==
    /\ pc = "except"
    /\ raised' = ConversionError(inner)
    /\ pc' = "idle"
    /\ UNCHANGED <<fb2_root, xml_content, inner, returned, printed>>
    /\ UNCHANGED <<appVars, fmtVars, clsVars>>

ConvertSteps ==
    \/ convert_open
    \/ convert_add_description
    \/ convert_process_document
    \/ convert_extract_images
    \/ convert_tostring
    \/ convert_validate
    \/ convert_return
    \/ convert_except

\* --------------------------------------------------------------- MainWindow

\* load_file / dropEvent -> load_docx_file: self.current_file = file_path,
\* set before the file is read.
load_docx_file ==
    /\ pc = "idle"
    /\ \E pkg \in AppPackages : current_file' = pkg
    /\ UNCHANGED <<fb2_content, settings, image_counter>>
    /\ UNCHANGED <<callVars, fmtVars, clsVars>>

\* open_settings: the dialog saves, self.settings = AppSettings.load()
open_settings ==
    /\ pc = "idle"
    /\ \E s \in Settings : settings' = s
    /\ UNCHANGED <<current_file, fb2_content, image_counter>>
    /\ UNCHANGED <<callVars, fmtVars, clsVars>>

\* clear_all_widgets: self.current_file = None
clear_all_widgets ==
    /\ pc = "idle"
    /\ current_file' = None
    /\ UNCHANGED <<fb2_content, settings, image_counter>>
    /\ UNCHANGED <<callVars, fmtVars, clsVars>>

\* convert_file: returns at once without a file, else calls
\* self.converter.convert(self.current_file, self.settings).
convert_file ==
    /\ pc = "idle"
    /\ current_file # None
    /\ image_counter <= MaxCounter
    /\ pc' = "open"
    /\ fb2_root' = None
    /\ xml_content' = None
    /\ inner' = None
    /\ returned' = None
    /\ raised' = None
    /\ printed' = <<>>
    /\ UNCHANGED <<appVars, fmtVars, clsVars>>

\* MainWindow.__init__: no file, no result, a converter made once.
Init ==
    /\ current_file = None
    /\ fb2_content = None
    /\ settings \in Settings
    /\ image_counter = 0
    /\ pc = "idle"
    /\ NoCall
    /\ NoFmt
    /\ NoCls

Next ==
    \/ load_docx_file
    \/ open_settings
    \/ clear_all_widgets
    \/ convert_file
    \/ ConvertSteps

\* The application: files are loaded and converted one after another by the
\* one converter of the window.
Spec == Init /\ [][Next]_vars

\* One call of convert on a fresh DocxToFb2Converter.
InitConvert ==
    /\ current_file \in ConvertPackages
    /\ fb2_content = None
    /\ settings \in Settings
    /\ image_counter = 0
    /\ pc = "open"
    /\ NoCall
    /\ NoFmt
    /\ NoCls

SpecConvert == InitConvert /\ [][ConvertSteps]_vars

\* ------------------------------- _add_text_with_formatting, run by run

\* The state after one iteration of the loop that leaves the cursor at c.
LoopStep(c) ==
    /\ parent' = c.tree
    /\ current_element' = c.current_element
    /\ run_index' = run_index + 1
    /\ fmt_pc' = IF run_index = Len(paragraph.runs) THEN "done" ELSE "loop"
    /\ UNCHANGED <<paragraph, appVars, callVars, clsVars>>

\* if not paragraph.runs: ...; return      current_element = parent
add_text_start ==
    /\ fmt_pc = "start"
    /\ IF paragraph.runs = <<>>
       THEN parent' = NoRunsText(paragraph, parent) /\ fmt_pc' = "done"
       ELSE parent' = parent /\ fmt_pc' = "loop"
    /\ UNCHANGED <<paragraph, current_element, run_index>>
    /\ UNCHANGED <<appVars, callVars, clsVars>>

\* if not run.text: continue
run_empty ==
    /\ fmt_pc = "loop"
    /\ paragraph.runs[run_index].text = <<>>
    /\ LoopStep(AddRun(Cursor(parent, current_element),
                       paragraph.runs[run_index], settings))

\* if run.bold and settings.preserve_formatting: ...
run_bold ==
    /\ fmt_pc = "loop"
    /\ paragraph.runs[run_index].text # <<>>
    /\ IsBoldRun(paragraph.runs[run_index], settings)
    /\ LoopStep(AddRun(Cursor(parent, current_element),
                       paragraph.runs[run_index], settings))

\* elif run.italic and settings.preserve_formatting: ...
run_italic ==
    /\ fmt_pc = "loop"
    /\ paragraph.runs[run_index].text # <<>>
    /\ IsItalicRun(paragraph.runs[run_index], settings)
    /\ LoopStep(AddRun(Cursor(parent, current_element),
                       paragraph.runs[run_index], settings))

\* else: plain text
run_plain ==
    /\ fmt_pc = "loop"
    /\ paragraph.runs[run_index].text # <<>>
    /\ ~IsBoldRun(paragraph.runs[run_index], settings)
    /\ ~IsItalicRun(paragraph.runs[run_index], settings)
    /\ LoopStep(AddRun(Cursor(parent, current_element),
                       paragraph.runs[run_index], settings))

\* _process_document calls it on a new element for each retained paragraph.
InitFmt ==
    /\ paragraph \in FmtParagraphs
    /\ parent = NewElement(BlockTag(paragraph.style))
    /\ current_element = 0
    /\ run_index = 1
    /\ fmt_pc = "start"
    /\ settings \in {[DefaultSettings EXCEPT !.preserve_formatting = b] :
                        b \in BOOLEAN}
    /\ current_file = None
    /\ fb2_content = None
    /\ image_counter = 0
    /\ pc = "idle"
    /\ NoCall
    /\ NoCls

NextFmt ==
    \/ add_text_start
    \/ run_empty
    \/ run_bold
    \/ run_italic
    \/ run_plain

\* One call of _add_text_with_formatting on every paragraph of FmtParagraphs.
SpecFmt == InitFmt /\ [][NextFmt]_vars

\* --------------------------------------------------- style classification

Chunks ==
    {<<"h","e","a","d","i","n","g"," ">>,
     <<"H","e","a","d","i","n","g"," ">>,
     <<"H","E","A","D","I","N","G"," ">>,
     <<"2">>, <<"3">>, <<"x">>}

\* The style names classified: every concatenation of up to MaxChunks chunks,
\* and no style at all.
StyleNames == {Join(cs) : cs \in SeqUpTo(Chunks, MaxChunks)} \cup {NoStyle}

\* style = ...; the element created for the paragraph
classify ==
    /\ block_tag = NoTag
    /\ block_tag' = BlockTag(para_style)
    /\ UNCHANGED <<para_style, appVars, callVars, fmtVars>>

InitClassify ==
    /\ para_style \in StyleNames
    /\ block_tag = NoTag
    /\ current_file = None
    /\ fb2_content = None
    /\ settings = DefaultSettings
    /\ image_counter = 0
    /\ pc = "idle"
    /\ NoCall
    /\ NoFmt

NextClassify == classify

\* The classification of every style name of StyleNames.
SpecClassify == InitClassify /\ [][NextClassify]_vars

\* =================================================================== claims

\* ------------------------------------------------------ terms of the claims

\* The runs the loop retains: those with a non-empty text.
Retained(runs) == SelectSeq(runs, LAMBDA r : r.text # <<>>)

\* The concatenation of the texts of runs rs[i..j].
TextOf(rs, i, j) == Join([k \in 1..(j - i + 1) |-> rs[i + k - 1].text])

\* The kind of formatting the loop gives a run.
KindOf(run) ==
    IF IsBoldRun(run, settings) THEN "strong"
    ELSE IF IsItalicRun(run, settings) THEN "emphasis"
    ELSE "plain"

\* A call of _add_text_with_formatting on a paragraph with runs has finished
\* with preserve_formatting set.
FormattedDone ==
    /\ fmt_pc = "done"
    /\ settings.preserve_formatting
    /\ paragraph.runs # <<>>

\* C1: with preserve_formatting set, the text of the built tree read in
\* document order equals the concatenation of the non-empty run texts in
\* their original order.
C1_TextInRunOrder ==
    FormattedDone =>
        IterText(parent, 0) = TextOf(Retained(paragraph.runs), 1,
                                     Len(Retained(paragraph.runs)))

\* C9: the retained runs are i plain runs, then bold runs up to j, then plain
\* runs.
PlainBoldPlain(rs, i, j) ==
    /\ 0 <= i /\ i < j /\ j <= Len(rs)
    /\ \A k \in 1..Len(rs) :
         KindOf(rs[k]) = (IF k > i /\ k <= j THEN "strong" ELSE "plain")

\* C9: for plain runs, then one or more bold runs, then plain runs, the
\* leading plain text is the paragraph's own text, there is exactly one
\* strong child, it holds the bold text, and the following plain text is its
\* tail.
C9_PlainBoldPlain ==
    FormattedDone =>
        LET rs == Retained(paragraph.runs)
        IN  \A i \in 0..Len(rs), j \in 0..Len(rs) :
                PlainBoldPlain(rs, i, j) =>
                    /\ parent.text = TextOf(rs, 1, i)
                    /\ parent.nodes =
                         <<[tag |-> "strong", text |-> TextOf(rs, i + 1, j),
                            tail |-> TextOf(rs, j + 1, Len(rs)), parent |-> 0]>>

\* C9 witness: plain text, a bold run and plain text again have been added.
C9_Witness ==
    /\ FormattedDone
    /\ LET rs == Retained(paragraph.runs)
       IN  Len(rs) = 3 /\ PlainBoldPlain(rs, 1, 2)
    /\ Len(parent.nodes) = 1
    /\ parent.nodes[1].tail # <<>>

\* C10: rs[i..j] is a maximal block of consecutive retained runs that are all
\* bold or all italic.
FormattedBlock(rs, i, j) ==
    /\ 1 <= i /\ i <= j /\ j <= Len(rs)
    /\ KindOf(rs[i]) # "plain"
    /\ \A k \in i..j : KindOf(rs[k]) = KindOf(rs[i])
    /\ i > 1 => KindOf(rs[i - 1]) # KindOf(rs[i])
    /\ j < Len(rs) => KindOf(rs[j + 1]) # KindOf(rs[i])

\* C10: every maximal block of consecutive bold (or italic) runs is one node
\* whose text is the concatenation of the block's run texts; there are no more
\* formatted nodes than blocks and none is a child of a node of its own kind.
C10_BlockIsOneNode ==
    FormattedDone =>
        LET rs == Retained(paragraph.runs)
            blocks == {b \in (1..Len(rs)) \X (1..Len(rs)) : FormattedBlock(rs, b[1], b[2])}
        IN  /\ \A b \in blocks :
                 \E k \in 1..Len(parent.nodes) :
                    /\ parent.nodes[k].tag = KindOf(rs[b[1]])
                    /\ parent.nodes[k].text = TextOf(rs, b[1], b[2])
            /\ Len(parent.nodes) <= Cardinality(blocks)
            /\ \A k \in 1..Len(parent.nodes) :
                 parent.nodes[k].tag # TagOf(parent, parent.nodes[k].parent)

\* The style name has, in some letter case, sub at some position.
NameHas(name, sub) ==
    /\ name # NoStyle
    /\ \E i \in 1..Len(name) :
         /\ i + Len(sub) - 1 <= Len(name)
         /\ \A j \in 1..Len(sub) : LowerChar(name[i + j - 1]) = sub[j]

\* C2 as stated: every name with "heading 3" is subtitle3, every name with
\* "heading 2" is subtitle2, every other name with "heading" is subtitle and
\* every remaining name, a missing style included, is p.
C2_Original ==
    block_tag # NoTag =>
        /\ NameHas(para_style, heading_3) => block_tag = "subtitle3"
        /\ NameHas(para_style, heading_2) => block_tag = "subtitle2"
        /\ (/\ NameHas(para_style, heading)
            /\ ~NameHas(para_style, heading_2)
            /\ ~NameHas(para_style, heading_3)) => block_tag = "subtitle"
        /\ ~NameHas(para_style, heading) => block_tag = "p"

\* C2 amended: "heading 2" is tested first. Every name with "heading 2" is
\* subtitle2, every name with "heading 3" and without "heading 2" is
\* subtitle3, every other name with "heading" is subtitle and every remaining
\* name, a missing style included, is p; letter case does not matter.
C2_Amended ==
    block_tag # NoTag =>
        /\ NameHas(para_style, heading_2) => block_tag = "subtitle2"
        /\ (/\ NameHas(para_style, heading_3)
            /\ ~NameHas(para_style, heading_2)) => block_tag = "subtitle3"
        /\ (/\ NameHas(para_style, heading)
            /\ ~NameHas(para_style, heading_2)
            /\ ~NameHas(para_style, heading_3)) => block_tag = "subtitle"
        /\ ~NameHas(para_style, heading) => block_tag = "p"

\* C2 witness: a name with both "heading 3" and "heading 2", not all in lower
\* case, has been classified as subtitle2.
C2_Witness ==
    /\ block_tag = "subtitle2"
    /\ NameHas(para_style, heading_3)
    /\ NameHas(para_style, heading_2)
    /\ Lower(para_style) # para_style

\* ------------------------------------------------ terms of the convert claims

\* The binary elements of a serialised document.
BinariesOf(xml) == ChildrenTagged(xml.document, "binary")

\* The children of the section of a serialised document.
SectionOf(xml) == ChildrenTagged(xml.document, "body")[1].section

\* The text is empty or whitespace only.
IsBlank(text) == \A i \in 1..Len(text) : text[i] \in {" ", "\t", "\n"}

\* The positions of the image entries PIL has to decode and cannot.
CorruptImages(pkg) ==
    {i \in 1..Len(pkg.namelist) :
        /\ IsImageFile(pkg.namelist[i])
        /\ Lower(pkg.namelist[i].ext) \notin JpegExtensions
        /\ pkg.namelist[i].bytes = "corrupt"}

\* The positions of the image entries that are used as they are or decode.
ValidImages(pkg) ==
    {i \in 1..Len(pkg.namelist) : IsImageFile(pkg.namelist[i])} \ CorruptImages(pkg)

\* Some binary element of the document holds the image at position i.
HasImage(xml, i) ==
    \E k \in 1..Len(BinariesOf(xml)) : BinariesOf(xml)[k].text.b64.content = i

\* C3: the first binary element of every document convert returns has the id
\* image_0, in the second and later conversions of the application too.
C3_FirstBinaryIsImage0 ==
    (returned # None /\ BinariesOf(returned) # <<>>) =>
        BinariesOf(returned)[1].attrib["id"] = ImageId(0)

\* C4: when exactly one media entry fails to decode, exactly that image is
\* missing from the binary elements and every valid image, listed before or
\* after it, is there.
C4_OnlyFailedImageMissing ==
    (/\ returned # None
     /\ settings.convert_images
     /\ Cardinality(CorruptImages(current_file)) = 1
     /\ printed = <<ImagePrefix \o UnidentifiedImageError.msg>>) =>
        /\ \A i \in ValidImages(current_file) : HasImage(returned, i)
        /\ \A i \in CorruptImages(current_file) : ~HasImage(returned, i)

\* C5: with remove_empty_lines set no block comes from a paragraph whose text
\* is empty or whitespace only; with it unset every paragraph is retained,
\* such a paragraph as a node without text other than whitespace.
C5_BlankParagraphsDropped ==
    returned # None =>
        LET ps == current_file.paragraphs
            section == SectionOf(returned)
        IN  IF settings.remove_empty_lines
            THEN /\ Len(section) = Cardinality({i \in 1..Len(ps) : ~IsBlank(ps[i].text)})
                 /\ \A k \in 1..Len(section) : ~IsBlank(IterText(section[k], 0))
            ELSE /\ Len(section) = Len(ps)
                 /\ \A i \in 1..Len(ps) :
                      IsBlank(ps[i].text) =>
                          /\ IsBlank(section[i].text)
                          /\ section[i].nodes = <<>>

\* A call of convert with validation requested has ended after its text
\* failed to re-parse.
ValidationFailed ==
    /\ pc = "idle"
    /\ settings.validate_fb2
    /\ xml_content # None
    /\ ParseError(xml_content) # None

\* The exception is the one _validate_fb2 raises.
IsValidationError(e) ==
    /\ e # None
    /\ e.type = "Exception"
    /\ Len(e.msg) >= 1
    /\ SubSeq(e.msg, 1, 1) = ValidationPrefix

\* C6 as stated: when requested validation fails, convert reports the error
\* and the produced text is still in the caller's hands; without validation
\* requested no validation error is raised.
C6_Original ==
    /\ ValidationFailed =>
         /\ raised # None
         /\ returned = xml_content \/ fb2_content = xml_content
    /\ ~settings.validate_fb2 => ~IsValidationError(inner)

\* C6 amended: when requested validation fails, convert raises the generic
\* conversion exception whose message holds the validation message, and the
\* produced text is not handed to the caller: convert returns nothing and
\* fb2_content stays as it was; without validation requested no validation
\* error is raised.
C6_Amended ==
    /\ ValidationFailed =>
         /\ raised = Exc("Exception",
                         ConversionPrefix \o ValidationPrefix \o XMLSyntaxError.msg)
         /\ returned = None
         /\ fb2_content = None
    /\ ~settings.validate_fb2 => ~IsValidationError(inner)

\* C6 witness: a call with validation requested produced a text that does not
\* re-parse, and has raised.
C6_Witness == ValidationFailed /\ raised # None

\* C7 as stated: the generic conversion error wraps only the faults that are
\* neither an unreadable source nor a failed validation, which are surfaced as
\* kinds of their own.
C7_Original ==
    (raised # None /\ (inner = PackageNotFoundError \/ IsValidationError(inner))) =>
        raised.type # "Exception"

\* C7 amended: convert surfaces one error kind to its caller, the generic
\* Exception, for an unreadable source, a failed validation and any other
\* fault alike; its message is the conversion prefix followed by the original
\* message, and no markup is returned with it (none is even built for an
\* unreadable source).
C7_Amended ==
    /\ raised # None =>
         /\ inner \in {PackageNotFoundError, XMLCompatError,
                       ValidationError(XMLSyntaxError)}
         /\ raised.type = "Exception"
         /\ raised.msg = ConversionPrefix \o inner.msg
         /\ returned = None
    /\ (pc = "idle" /\ ~current_file.readable) =>
         /\ raised # None
         /\ inner = PackageNotFoundError
         /\ fb2_root = None
         /\ xml_content = None
         /\ returned = None

\* C7 witness: a call on an unreadable source has raised.
C7_Witness == pc = "idle" /\ ~current_file.readable /\ raised # None

\* The package holds an image whose base64 text the parser refuses.
HasHugeImage(pkg) ==
    \E i \in 1..Len(pkg.namelist) :
        IsImageFile(pkg.namelist[i]) /\ pkg.namelist[i].bytes = "huge"

\* A call of convert with convert_images set has ended on a source whose
\* description and body were built, image extraction failed (a corrupt entry,
\* or the package did not open), and validation, if requested, cannot fail.
ImageFailureOnly ==
    /\ pc = "idle"
    /\ current_file.readable
    /\ XMLCompatible(current_file.stem)
    /\ settings.convert_images
    /\ CorruptImages(current_file) # {} \/ printed # <<>>
    /\ ~settings.validate_fb2 \/ ~HasHugeImage(current_file)

\* C8: a failure inside image extraction never aborts the conversion: convert
\* raises nothing and returns a document with the description and one block
\* for every retained paragraph.
C8_ImageFailureNeverAborts ==
    ImageFailureOnly =>
        /\ raised = None
        /\ returned # None
        /\ Len(ChildrenTagged(returned.document, "description")) = 1
        /\ Len(SectionOf(returned)) =
             Cardinality({i \in 1..Len(current_file.paragraphs) :
                 ~(current_file.paragraphs[i].text = <<>>
                   /\ settings.remove_empty_lines)})

\* C8 witness: a call whose image extraction printed a failure has returned a
\* document.
C8_Witness ==
    /\ ImageFailureOnly
    /\ CorruptImages(current_file) # {}
    /\ printed # <<>>
    /\ returned # None
    /\ SectionOf(returned) # <<>>

\* The tag a style name is classified to: "heading 2" before "heading 3".
TagFor(style) ==
    IF NameHas(style, heading_2) THEN "subtitle2"
    ELSE IF NameHas(style, heading_3) THEN "subtitle3"
    ELSE IF NameHas(style, heading) THEN "subtitle"
    ELSE "p"

\* The paragraphs _process_document retains: all of them, without those of
\* empty text when remove_empty_lines is set.
RetainedParagraphs(ps, s) ==
    SelectSeq(ps, LAMBDA para : ~(para.text = <<>> /\ s.remove_empty_lines))

\* The source of the end-to-end scenario: Heading 1, body, Heading 2, no media.
ScenarioPackage ==
    Package(TRUE, GoodStem,
            <<ParagraphOf(Heading1, <<Bold(<<"a">>)>>),
              ParagraphOf(NoStyle, <<Plain(<<"a">>)>>),
              ParagraphOf(Heading2, <<Plain(<<"b">>)>>)>>,
            <<>>)

\* C11: the section of a returned document holds exactly one block for every
\* retained paragraph, in source order, each tagged by its classification; the
\* source Heading 1, body, Heading 2 without media yields one description
\* (title-info), the blocks subtitle, p, subtitle2 in this order and no binary.
C11_OneBlockPerParagraph ==
    returned # None =>
        LET kept == RetainedParagraphs(current_file.paragraphs, settings)
            section == SectionOf(returned)
        IN  /\ Len(section) = Len(kept)
            /\ \A k \in 1..Len(kept) : section[k].tag = TagFor(kept[k].style)
            /\ current_file = ScenarioPackage =>
                 /\ Len(ChildrenTagged(returned.document, "description")) = 1
                 /\ [k \in 1..Len(section) |-> section[k].tag]
                      = <<"subtitle", "p", "subtitle2">>
                 /\ BinariesOf(returned) = <<>>

\* C11 witness: the scenario's source has been converted and returned.
C11_Witness ==
    /\ returned # None
    /\ current_file = ScenarioPackage
    /\ Len(SectionOf(returned)) = 3

\* C12: every binary element of a returned document has exactly the
\* attributes id, of the form image_N, and content-type, with the value
\* "image/jpeg", whatever the format of the source image.
C12_BinaryAttributes ==
    returned # None =>
        \A k \in 1..Len(BinariesOf(returned)) :
            LET attrib == BinariesOf(returned)[k].attrib
            IN  /\ DOMAIN attrib = {"id", "content-type"}
                /\ attrib["id"][1] = "image_"
                /\ attrib["id"][2] \in Nat
                /\ attrib["content-type"] = "image/jpeg"

\* The loop is about to handle a bold or italic run while the cursor is a
\* formatted node that has received trailing plain text.
FormattedRunAfterTail ==
    /\ fmt_pc = "loop"
    /\ paragraph.runs[run_index].text # <<>>
    /\ KindOf(paragraph.runs[run_index]) # "plain"
    /\ current_element # 0
    /\ parent.nodes[current_element].tail # <<>>

\* C13: a bold or italic run that follows a formatted node with trailing text,
\* also one of the node's own kind, opens a new node after it, as a child of
\* the same parent; the earlier nodes are left as they are.
C13_NewSiblingAfterTail ==
    [][FormattedRunAfterTail =>
        parent'.nodes =
            Append(parent.nodes,
                   [tag |-> KindOf(paragraph.runs[run_index]),
                    text |-> paragraph.runs[run_index].text,
                    tail |-> <<>>,
                    parent |-> parent.nodes[current_element].parent])]_vars

\* C14: every strong and emphasis node of the tree is a direct child of the
\* paragraph element.
C14_FormattedNodesAreChildren ==
    fmt_pc \in {"loop", "done"} =>
        \A k \in 1..Len(parent.nodes) : parent.nodes[k].parent = 0

\* C15: with preserve_formatting unset the paragraph has no strong or
\* emphasis node and its own text is the concatenation of the non-empty run
\* texts in order, whatever the flags of the runs.
C15_NoFormattingWhenUnset ==
    (fmt_pc = "done" /\ ~settings.preserve_formatting /\ paragraph.runs # <<>>) =>
        /\ parent.nodes = <<>>
        /\ parent.text = TextOf(Retained(paragraph.runs), 1,
                                Len(Retained(paragraph.runs)))

\* C15 witness: with preserve_formatting unset a paragraph with a bold run and
\* an italic run, both with text, has been handled.
C15_Witness ==
    /\ fmt_pc = "done"
    /\ ~settings.preserve_formatting
    /\ \E i, j \in 1..Len(paragraph.runs) :
         /\ paragraph.runs[i].bold /\ paragraph.runs[i].text # <<>>
         /\ paragraph.runs[j].italic /\ paragraph.runs[j].text # <<>>
    /\ parent.text # <<>>

\* The runs with the italic flag cleared on every run that is bold too.
BoldOnly(runs) ==
    [i \in 1..Len(runs) |->
        IF runs[i].bold THEN [runs[i] EXCEPT !.italic = FALSE] ELSE runs[i]]

\* The texts of the emphasis nodes of a tree, concatenated.
EmphasisText(tree) ==
    Join([k \in 1..Len(tree.nodes) |->
            IF tree.nodes[k].tag = "emphasis" THEN tree.nodes[k].text ELSE <<>>])

\* The texts of the retained runs that are italic and not bold, concatenated.
ItalicOnlyText(runs) ==
    Join([i \in 1..Len(runs) |->
            IF runs[i].italic /\ ~runs[i].bold THEN runs[i].text ELSE <<>>])

\* C16: a run with both flags set is handled as a bold-only run: the tree is
\* the one built for the same runs with the italic flag cleared on the bold
\* ones, and the emphasis nodes hold the text of the italic-only runs alone.
C16_BoldWinsOverItalic ==
    (fmt_pc = "done" /\ paragraph.runs # <<>>) =>
        /\ parent = AddTextWithFormatting(
                        ParagraphOf(paragraph.style, BoldOnly(paragraph.runs)),
                        NewElement(parent.tag), settings)
        /\ settings.preserve_formatting =>
             EmphasisText(parent) = ItalicOnlyText(paragraph.runs)

\* C16 witness: with preserve_formatting set a run with both flags and a text
\* has been added and the cursor is a strong node.
C16_Witness ==
    /\ fmt_pc = "done"
    /\ settings.preserve_formatting
    /\ paragraph.runs # <<>>
    /\ LET run == paragraph.runs[Len(paragraph.runs)]
       IN  run.bold /\ run.italic /\ run.text # <<>>
    /\ current_element # 0
    /\ parent.nodes[current_element].tag = "strong"

\* C17: while convert_images is unset no step of a conversion changes the
\* converter's image counter, and the document the conversion returns has no
\* binary element, whatever media the package holds and whatever the counter
\* was before.
C17_NoImagesWhenUnset ==
    [][(pc # "idle" /\ ~settings.convert_images) =>
          /\ image_counter' = image_counter
          /\ returned' # None => BinariesOf(returned') = <<>>]_vars

\* C17 witness: a conversion with convert_images unset, on a package with an
\* image in word/media and a converter that has numbered images before, is about
\* to return a document without binary elements.
C17_Witness ==
    /\ pc = "return"
    /\ ~settings.convert_images
    /\ current_file # None
    /\ ValidImages(current_file) # {}
    /\ image_counter > 0
    /\ BinariesOf(xml_content) = <<>>

====
